---- MODULE Spec2Model ----
(***************************************************************************)
(* The structured-template evaluator of python-structured-templates.       *)
(*                                                                         *)
(* Two TemplateEngine classes live in the repository: the one defined in   *)
(* the package's __init__.py (with its nested Context class; the class the *)
(* tests import) and the one of engine.py, which works on the Context of   *)
(* context.py and adds the `recursive` flag and the with(...) block.  Both *)
(* are modelled; the definitions of the first carry the prefix pkg_.       *)
(*                                                                         *)
(* A Python str is a sequence of one-character strings.  A Value is a      *)
(* record [t, v]: t the Python type, v the payload (a dict is the ordered  *)
(* sequence of its <<key, value>> items).                                  *)
(***************************************************************************)
EXTENDS Integers, Sequences, FiniteSets, TLC

VARIABLES impl, globals, template, mode, outcome

vars == <<impl, globals, template, mode, outcome>>

----------------------------------------------------------------------------
(* Python str helpers *)

Letters == {"a","b","c","d","e","f","g","h","i","j","k","l","m","n","o","p",
            "q","r","s","t","u","v","w","x","y","z","_","F","N","T"}

DigitSeq == <<"0","1","2","3","4","5","6","7","8","9">>

Digits == {DigitSeq[i] : i \in 1..10}

DigitVal(c) == (CHOOSE i \in 1..10 : DigitSeq[i] = c) - 1

RECURSIVE IntToStr(_)
IntToStr(n) ==
    IF n < 10 THEN <<DigitSeq[n + 1]>>
    ELSE IntToStr(n \div 10) \o <<DigitSeq[(n % 10) + 1]>>

RECURSIVE StrToInt(_)
StrToInt(s) ==
    IF Len(s) = 0 THEN 0
    ELSE 10 * StrToInt(SubSeq(s, 1, Len(s) - 1)) + DigitVal(s[Len(s)])

startswith(s, p) == Len(s) >= Len(p) /\ SubSeq(s, 1, Len(p)) = p

endswith(s, p) == Len(s) >= Len(p) /\ SubSeq(s, Len(s) - Len(p) + 1, Len(s)) = p

\* p occurs in s at (1-based) position i
OccursAt(s, p, i) == i >= 1 /\ i + Len(p) - 1 <= Len(s) /\ SubSeq(s, i, i + Len(p) - 1) = p

\* the first position >= from where p occurs in s, 0 when there is none (str.find)
find(s, p, from) ==
    IF \E i \in from..Len(s) : OccursAt(s, p, i)
    THEN CHOOSE i \in from..Len(s) :
            OccursAt(s, p, i) /\ \A j \in from..(i - 1) : ~OccursAt(s, p, j)
    ELSE 0

contains(s, p) == find(s, p, 1) # 0

\* str.split(sep): the pieces between the non-overlapping occurrences of sep
RECURSIVE split(_, _)
\* the pieces of s, whose first occurrence of sep is at i (0 when there is none)
split_at(s, sep, i) ==
    IF i = 0 THEN <<s>>
    ELSE <<SubSeq(s, 1, i - 1)>> \o split(SubSeq(s, i + Len(sep), Len(s)), sep)

split(s, sep) == split_at(s, sep, find(s, sep, 1))

isdigit(s) == Len(s) > 0 /\ \A i \in 1..Len(s) : s[i] \in Digits

isidentifier(s) ==
    /\ Len(s) > 0
    /\ s[1] \in Letters
    /\ \A i \in 1..Len(s) : s[i] \in Letters \cup Digits

RECURSIVE strip(_)
strip(s) ==
    IF Len(s) = 0 THEN s
    ELSE IF s[1] = " " THEN strip(Tail(s))
    ELSE IF s[Len(s)] = " " THEN strip(SubSeq(s, 1, Len(s) - 1))
    ELSE s

----------------------------------------------------------------------------
(* The Value model *)

VNone == [t |-> "none", v |-> 0]

VBool(b) == [t |-> "bool", v |-> b]

VInt(n) == [t |-> "int", v |-> n]

VStr(s) == [t |-> "str", v |-> s]

VList(xs) == [t |-> "list", v |-> xs]

VDict(items) == [t |-> "dict", v |-> items]

\* result[key] = value on an insertion-ordered dict
dict_setitem(items, key, value) ==
    IF \E i \in 1..Len(items) : items[i][1] = key
    THEN [i \in 1..Len(items) |->
            IF items[i][1] = key THEN <<key, value>> ELSE items[i]]
    ELSE Append(items, <<key, value>>)

\* result.update(other)
RECURSIVE dict_update(_, _)
dict_update(items, other) ==
    IF Len(other) = 0 THEN items
    ELSE dict_update(dict_setitem(items, other[1][1], other[1][2]), Tail(other))

dict_has(items, key) == \E i \in 1..Len(items) : items[i][1] = key

dict_get(items, key) == items[CHOOSE i \in 1..Len(items) : items[i][1] = key][2]

\* bool(value)
truthy(x) ==
    CASE x.t = "none" -> FALSE
      [] x.t = "bool" -> x.v
      [] x.t = "int" -> x.v # 0
      [] OTHER -> Len(x.v) > 0

\* str(value) of a plain value
str(x) ==
    CASE x.t = "none" -> <<"N","o","n","e">>
      [] x.t = "bool" -> IF x.v THEN <<"T","r","u","e">> ELSE <<"F","a","l","s","e">>
      [] x.t = "int" -> IntToStr(x.v)
      [] OTHER -> x.v

RECURSIVE repr(_), repr_items(_, _)
\* repr(value), as the f-string conversion !r gives it
repr(x) ==
    CASE x.t = "str" -> <<"'">> \o x.v \o <<"'">>
      [] x.t = "list" -> <<"[">> \o repr_items(x, 1) \o <<"]">>
      [] x.t = "dict" -> <<"{">> \o repr_items(x, 1) \o <<"}">>
      [] OTHER -> str(x)

repr_items(x, i) ==
    IF i > Len(x.v) THEN <<>>
    ELSE (IF i > 1 THEN <<",", " ">> ELSE <<>>)
         \o (IF x.t = "dict"
             THEN repr(VStr(x.v[i][1])) \o <<":", " ">> \o repr(x.v[i][2])
             ELSE repr(x.v[i]))
         \o repr_items(x, i + 1)

\* isinstance(value, Iterable)
is_iterable(x) == x.t \in {"str", "list", "dict"}

\* list(iter(value)): the characters of a str, the elements of a list, the keys of a dict
iter_items(x) ==
    CASE x.t = "str" -> [i \in 1..Len(x.v) |-> VStr(<<x.v[i]>>)]
      [] x.t = "dict" -> [i \in 1..Len(x.v) |-> VStr(x.v[i][1])]
      [] OTHER -> x.v

----------------------------------------------------------------------------
(* Outcomes of a call: a returned value or a raised exception *)

NoError == [type |-> "", path |-> <<>>, msg |-> ""]

Return(v) == [ok |-> TRUE, val |-> v, err |-> NoError]

Raise(type, path, msg) ==
    [ok |-> FALSE, val |-> VNone, err |-> [type |-> type, path |-> path, msg |-> msg]]

----------------------------------------------------------------------------
(* The expression evaluator: Python's eval(source, scope) on the fragment  *)
(*     expr ::= unary ("+" unary)*     unary ::= "+" unary | atom          *)
(*     atom ::= decimal literal | True | False | None | name               *)
(* with blanks allowed around every token.  A name is looked up in the     *)
(* scope dict (no builtin has a name the templates below use); every other *)
(* source text is a SyntaxError.  Any exception is reported as ok = FALSE. *)

Keywords == { <<"i","f">>, <<"i","n">>, <<"i","s">>, <<"o","r">>, <<"a","s">>,
              <<"f","o","r">>, <<"w","i","t","h">>, <<"n","o","t">>, <<"a","n","d">> }

EvalFail == [ok |-> FALSE, val |-> VNone]

EvalOk(v) == [ok |-> TRUE, val |-> v]

eval_atom(tok, scope) ==
    IF tok = <<"T","r","u","e">> THEN EvalOk(VBool(TRUE))
    ELSE IF tok = <<"F","a","l","s","e">> THEN EvalOk(VBool(FALSE))
    ELSE IF tok = <<"N","o","n","e">> THEN EvalOk(VNone)
    ELSE IF isdigit(tok)
    THEN IF Len(tok) > 1 /\ tok[1] = "0" /\ \E i \in 1..Len(tok) : tok[i] # "0"
         THEN EvalFail
         ELSE EvalOk(VInt(StrToInt(tok)))
    ELSE IF isidentifier(tok) /\ tok \notin Keywords
    THEN IF dict_has(scope, tok) THEN EvalOk(dict_get(scope, tok)) ELSE EvalFail
    ELSE EvalFail

\* +x
eval_pos(x) ==
    CASE x.t = "int" -> EvalOk(x)
      [] x.t = "bool" -> EvalOk(VInt(IF x.v THEN 1 ELSE 0))
      [] OTHER -> EvalFail

\* x + y
eval_add(x, y) ==
    LET num(z) == IF z.t = "bool" THEN (IF z.v THEN 1 ELSE 0) ELSE z.v
    IN  CASE x.t \in {"int", "bool"} /\ y.t \in {"int", "bool"} -> EvalOk(VInt(num(x) + num(y)))
          [] x.t = "str" /\ y.t = "str" -> EvalOk(VStr(x.v \o y.v))
          [] x.t = "list" /\ y.t = "list" -> EvalOk(VList(x.v \o y.v))
          [] OTHER -> EvalFail

\* the atom a, under a unary plus when `plus`
eval_signed(a, plus) == IF a.ok /\ plus THEN eval_pos(a.val) ELSE a

\* the operand that ends at piece j of the source split at "+": an atom, under a
\* unary plus when the piece right before it is empty
eval_operand(pieces, j, scope) ==
    eval_signed(eval_atom(strip(pieces[j]), scope),
                j > 1 /\ strip(pieces[j - 1]) = <<>> /\ strip(pieces[j]) # <<>>)

\* the sum so far and the next operand x: x when it is the first (acc is not ok
\* before the first operand) or when it raised, acc + x otherwise
eval_acc(acc, x) ==
    IF ~x.ok \/ ~acc.ok THEN x ELSE eval_add(acc.val, x.val)

RECURSIVE eval_sum(_, _, _, _)
\* the sum y of the operands up to piece j, then the rest unless y raised
eval_rest(pieces, j, scope, y) ==
    IF y.ok THEN eval_sum(pieces, j + 1, scope, y) ELSE y

eval_sum(pieces, j, scope, acc) ==
    IF j > Len(pieces) THEN acc
    ELSE IF strip(pieces[j]) = <<>> THEN eval_sum(pieces, j + 1, scope, acc)
    ELSE eval_rest(pieces, j, scope, eval_acc(acc, eval_operand(pieces, j, scope)))

\* the source split at "+": a SyntaxError when nothing follows the last "+"
eval_pieces(pieces, scope) ==
    IF strip(pieces[Len(pieces)]) = <<>> THEN EvalFail
    ELSE eval_sum(pieces, 1, scope, EvalFail)

eval(source, scope) == eval_pieces(split(source, <<"+">>), scope)

----------------------------------------------------------------------------
(* context.py: Context.  parent is <<>> (None) or <<the parent Context>>;  *)
(* key is VNone, VInt(index) or VStr(name); scope is a dict's items.       *)

Context(parent, key, data, scope) ==
    [parent |-> parent, key |-> key, data |-> data, scope |-> scope]

\* Context.__post_init__: assert self.parent is None or self.key is not None
post_init_ok(parent, key) == parent = <<>> \/ key # VNone

RECURSIVE trace_location(_)
trace_location(ctx) ==
    IF ctx.parent = <<>> THEN <<"$">>
    ELSE IF ctx.key.t = "int" \/ (ctx.key.t = "str" /\ isidentifier(ctx.key.v))
         THEN trace_location(ctx.parent[1]) \o <<".">> \o str(ctx.key)
         ELSE trace_location(ctx.parent[1]) \o <<".", "'">> \o str(ctx.key) \o <<"'">>

\* Context.error(message): the TemplateError, raised by the caller
error(ctx, message) == Raise("TemplateError", trace_location(ctx), message)

\* ChainMap(self.scope or {}, parent.scope_chainmap(globals_) if parent else globals_ or {}):
\* the maps of the chain, innermost first
RECURSIVE scope_chainmap(_, _)
\* a chain searched outermost first: the globals shadow every block's binding
scope_chainmap_outermost_first(ctx, globals_) ==
    (IF ctx.parent # <<>> THEN scope_chainmap(ctx.parent[1], globals_) ELSE <<globals_>>)
    \o <<ctx.scope>>

scope_chainmap(ctx, globals_) ==
    <<ctx.scope>> \o (IF ctx.parent # <<>> THEN scope_chainmap(ctx.parent[1], globals_)
                      ELSE <<globals_>>)

\* dict(chainmap): every key of the chain, bound as in the first map that holds it
RECURSIVE dict_of_chainmap(_)
dict_of_chainmap(maps) ==
    IF Len(maps) = 0 THEN <<>>
    ELSE dict_update(dict_of_chainmap(Tail(maps)), maps[1])

\* Context.full_scope(globals_), which engine.py calls: the effective scope of the
\* node, its own scope over its ancestors' over the engine globals
full_scope(ctx, globals_) == scope_chainmap(ctx, globals_)

----------------------------------------------------------------------------
(* engine.py: TemplateEngine *)

\* the regular expression \$\{\{(.+?)\}\}: the first match in s at or after `from`,
\* as <<start, end of the inner text>>, or <<0, 0>>
marker_search(s, from) ==
    LET open == <<"$", "{", "{">>
        close == <<"}", "}">>
        starts == {p \in from..Len(s) :
                     OccursAt(s, open, p) /\ \E q \in (p + 4)..Len(s) : OccursAt(s, close, q)}
    IN  IF starts = {} THEN <<0, 0>>
        ELSE LET p == CHOOSE x \in starts : \A y \in starts : x <= y
                 q == find(s, close, p + 4)
             IN  <<p, q - 1>>

is_plain(x) == x.t \in {"int", "str", "bool", "none"}

\* a _repl that returns str(result) for None as well
repl_text_of_none(x) == str(x)

\* _repl's return value: str(result) if result is not None else ""
repl_text(x) == IF x.t = "none" THEN <<>> ELSE str(x)

\* engine.py 132-136: what eval returned, or the TemplateError raised for its exception
eval_outcome(ctx, r) ==
    IF r.ok THEN Return(r.val) ELSE error(ctx, "Failed to evaluate the expression")

evaluate_expression(self, ctx) ==
    eval_outcome(ctx, eval(ctx.data.v, dict_of_chainmap(full_scope(ctx, self.globals))))

RECURSIVE re_sub(_, _, _, _)
\* _repl on the match m, whose expression evaluated to r, and the substitution of
\* the rest of the string
repl(self, ctx, from, out, m, r) ==
    IF ~r.ok THEN r
    ELSE IF ~is_plain(r.val) THEN error(ctx, "Expected a plain value")
    ELSE re_sub(self, ctx, m[2] + 3,
                out \o SubSeq(ctx.data.v, from, m[1] - 1) \o repl_text(r.val))

\* re.sub from position `from` on, m the next match
re_sub_match(self, ctx, from, out, m) ==
    IF m[1] = 0 THEN Return(VStr(out \o SubSeq(ctx.data.v, from, Len(ctx.data.v))))
    ELSE repl(self, ctx, from, out, m,
              evaluate_expression(self, Context(ctx.parent, ctx.key,
                                                VStr(SubSeq(ctx.data.v, m[1] + 3, m[2])), <<>>)))

re_sub(self, ctx, from, out) ==
    re_sub_match(self, ctx, from, out, marker_search(ctx.data.v, from))

\* an evaluate_string that substitutes into every string, a whole marker included
evaluate_string_by_substitution(self, ctx) == re_sub(self, ctx, 1, <<>>)

is_whole_marker(s) == startswith(s, <<"$", "{", "{">>) /\ endswith(s, <<"}", "}">>)

evaluate_string(self, ctx) ==
    IF is_whole_marker(ctx.data.v)
    THEN evaluate_expression(self, Context(ctx.parent, ctx.key, VStr(SubSeq(ctx.data.v, 4, Len(ctx.data.v) - 2)), <<>>))
    ELSE re_sub(self, ctx, 1, <<>>)

RECURSIVE evaluate(_, _, _), evaluate_dict(_, _, _), dict_loop(_, _, _, _, _),
          for_loop(_, _, _, _, _, _, _, _), evaluate_list(_, _, _), list_loop(_, _, _, _, _)

\* an if block that merges its body whatever the condition evaluates to
if_block_unconditional(self, ctx, recursive, key, value, result) ==
    LET subctx == Context(<<ctx>>, VStr(key), value, <<>>)
        cond == evaluate_expression(self, Context(<<ctx>>, VStr(key), VStr(SubSeq(key, 4, Len(key) - 1)), <<>>))
        body == IF value.t = "str"
                THEN evaluate_string(self, Context(<<ctx>>, VStr(key), value, <<>>))
                ELSE Return(value)
    IN  IF ~cond.ok THEN cond
        ELSE IF ~body.ok THEN body
        ELSE IF body.val.t # "dict"
        THEN error(subctx, "The value of an if block must be a dictionary.")
        ELSE LET out == IF recursive
                        THEN evaluate_dict(self, Context(<<ctx>>, VStr(key), body.val, <<>>), recursive)
                        ELSE body
             IN  IF ~out.ok THEN out
                 ELSE Return(VDict(dict_update(result, out.val.v)))

\* engine.py 44-54: the entry `key: value` of ctx.data is an if block
if_block(self, ctx, recursive, key, value, result) ==
    LET subctx == Context(<<ctx>>, VStr(key), value, <<>>)
        cond == evaluate_expression(self, Context(<<ctx>>, VStr(key), VStr(SubSeq(key, 4, Len(key) - 1)), <<>>))
    IN  IF ~cond.ok THEN cond
        ELSE IF ~truthy(cond.val) THEN Return(VDict(result))
        ELSE LET body == IF value.t = "str"
                         THEN evaluate_string(self, Context(<<ctx>>, VStr(key), value, <<>>))
                         ELSE Return(value)
             IN  IF ~body.ok THEN body
                 ELSE IF body.val.t # "dict"
                 THEN error(subctx, "The value of an if block must be a dictionary.")
                 ELSE LET out == IF recursive
                                 THEN evaluate_dict(self, Context(<<ctx>>, VStr(key), body.val, <<>>), recursive)
                                 ELSE body
                      IN  IF ~out.ok THEN out
                          ELSE Return(VDict(dict_update(result, out.val.v)))

\* a shallow for key written with str(item) in place of repr(item)
shallow_for_key_of_str(var, item) ==
    <<"w","i","t","h","(">> \o var \o <<"=">> \o str(item) \o <<")">>

\* engine.py 74: the key of the entry a shallow for block emits for one item
shallow_for_key(var, item) ==
    <<"w","i","t","h","(">> \o var \o <<"=">> \o repr(item) \o <<")">>

\* engine.py 76: the Context of one iteration's body
for_body_context(subctx, idx, value, var, item) ==
    Context(<<subctx>>, VStr(IntToStr(idx)), value, <<<<var, item>>>>)

\* a for loop in which an entry written earlier keeps its value
for_loop_first_write_wins(self, subctx, recursive, var, items, value, idx, result) ==
    IF idx >= Len(items) THEN Return(VDict(result))
    ELSE IF ~recursive
    THEN for_loop(self, subctx, recursive, var, items, value, idx + 1,
                  dict_setitem(result, shallow_for_key(var, items[idx + 1]), value))
    ELSE LET out == evaluate_dict(self, for_body_context(subctx, idx, value, var, items[idx + 1]), recursive)
         IN  IF ~out.ok THEN out
             ELSE for_loop(self, subctx, recursive, var, items, value, idx + 1,
                           dict_update(result,
                               SelectSeq(out.val.v, LAMBDA e : ~dict_has(result, e[1]))))

\* engine.py 72-76: for idx, item in enumerate(it), from the (0-based) index idx on
for_loop(self, subctx, recursive, var, items, value, idx, result) ==
    IF idx >= Len(items) THEN Return(VDict(result))
    ELSE IF ~recursive
    THEN for_loop(self, subctx, recursive, var, items, value, idx + 1,
                  dict_setitem(result, shallow_for_key(var, items[idx + 1]), value))
    ELSE LET out == evaluate_dict(self, for_body_context(subctx, idx, value, var, items[idx + 1]), recursive)
         IN  IF ~out.ok THEN out
             ELSE for_loop(self, subctx, recursive, var, items, value, idx + 1,
                           dict_update(result, out.val.v))

\* engine.py 56-76: the entry is a for block
for_block(self, ctx, recursive, key, value, result) ==
    LET subctx == Context(<<ctx>>, VStr(key), value, <<>>)
        expr == SubSeq(key, 5, Len(key) - 1)
        sep == <<" ", "i", "n", " ">>
        parts == split(expr, sep)
    IN  IF value.t # "dict"
        THEN error(subctx, "The value of a for block must be a dictionary.")
        ELSE IF ~contains(expr, sep)
        THEN error(subctx, "Invalid for block expression (missing 'in')")
        ELSE IF Len(parts) # 2
        THEN Raise("ValueError", <<>>, "too many values to unpack (expected 2)")
        ELSE IF ~isidentifier(parts[1])
        THEN error(subctx, "Invalid for block variable (not an identifier)")
        ELSE LET it == evaluate_expression(self, Context(<<ctx>>, VStr(key), VStr(parts[2]), <<>>))
             IN  IF ~it.ok THEN it
                 ELSE IF ~is_iterable(it.val)
                 THEN error(subctx, "The iterable of a for block must be iterable")
                 ELSE for_loop(self, subctx, recursive, parts[1], iter_items(it.val), value, 0, result)

\* engine.py 92: the Context of a with block's body
with_body_context(subctx, value, var, val) ==
    Context(<<subctx>>, VStr(var), value, <<<<var, val>>>>)

\* engine.py 78-92: the entry is a with block
with_block(self, ctx, recursive, key, value, result) ==
    LET subctx == Context(<<ctx>>, VStr(key), value, <<>>)
        expr == SubSeq(key, 6, Len(key) - 1)
        parts == split(expr, <<"=">>)
    IN  IF value.t # "dict"
        THEN error(subctx, "The value of a with block must be a dictionary.")
        ELSE IF ~contains(expr, <<"=">>)
        THEN error(subctx, "Invalid with block expression (missing '=')")
        ELSE IF Len(parts) # 2
        THEN Raise("ValueError", <<>>, "too many values to unpack (expected 2)")
        ELSE IF ~isidentifier(parts[1])
        THEN error(subctx, "Invalid with block variable (not an identifier)")
        ELSE LET val == evaluate_expression(self, Context(<<ctx>>, VStr(key), VStr(parts[2]), <<>>))
             IN  IF ~val.ok THEN val
                 ELSE LET out == evaluate_dict(self, with_body_context(subctx, value, parts[1], val.val), recursive)
                      IN  IF ~out.ok THEN out
                          ELSE Return(VDict(dict_update(result, out.val.v)))

\* engine.py 94-100: an ordinary entry
plain_entry(self, ctx, recursive, key, value, result) ==
    LET subctx == Context(<<ctx>>, VStr(key), value, <<>>)
        key_value == evaluate_string(self, Context(<<ctx>>, VStr(key), VStr(key), <<>>))
    IN  IF ~key_value.ok THEN key_value
        ELSE IF key_value.val.t # "str"
        THEN error(subctx, "Expected a string key")
        ELSE LET out == IF recursive \/ value.t = "str"
                        THEN evaluate(self, Context(<<ctx>>, VStr(key), value, <<>>), recursive)
                        ELSE Return(value)
             IN  IF ~out.ok THEN out
                 ELSE Return(VDict(dict_setitem(result, key_value.val.v, out.val)))

\* engine.py 44, 56, 78: which branch of evaluate_dict takes the key
key_kind(key) ==
    IF startswith(key, <<"i","f","(">>) /\ endswith(key, <<")">>) THEN "if"
    ELSE IF startswith(key, <<"f","o","r","(">>) /\ endswith(key, <<")">>) THEN "for"
    ELSE IF startswith(key, <<"w","i","t","h","(">>) /\ endswith(key, <<")">>) THEN "with"
    ELSE "plain"

\* engine.py 41-100: for key, value in ctx.data.items(), from item i on
dict_loop(self, ctx, recursive, i, result) ==
    IF i > Len(ctx.data.v) THEN Return(VDict(result))
    ELSE LET key == ctx.data.v[i][1]
             value == ctx.data.v[i][2]
             kind == key_kind(key)
             out == CASE kind = "if" -> if_block(self, ctx, recursive, key, value, result)
                      [] kind = "for" -> for_block(self, ctx, recursive, key, value, result)
                      [] kind = "with" -> with_block(self, ctx, recursive, key, value, result)
                      [] OTHER -> plain_entry(self, ctx, recursive, key, value, result)
         IN  IF ~out.ok THEN out ELSE dict_loop(self, ctx, recursive, i + 1, out.val.v)

evaluate_dict(self, ctx, recursive) == dict_loop(self, ctx, recursive, 1, <<>>)

\* engine.py 109: the Context of the element at (0-based) index idx
list_item_context(ctx, idx, item) == Context(<<ctx>>, VInt(idx), item, <<>>)

list_loop(self, ctx, recursive, idx, out) ==
    IF idx >= Len(ctx.data.v) THEN Return(VList(out))
    ELSE IF ~post_init_ok(<<ctx>>, list_item_context(ctx, idx, ctx.data.v[idx + 1]).key)
    THEN Raise("AssertionError", <<>>, "The key must be provided if the parent is provided.")
    ELSE LET r == evaluate(self, list_item_context(ctx, idx, ctx.data.v[idx + 1]), recursive)
         IN  IF ~r.ok THEN r ELSE list_loop(self, ctx, recursive, idx + 1, Append(out, r.val))

evaluate_list(self, ctx, recursive) == list_loop(self, ctx, recursive, 0, <<>>)

evaluate(self, value, recursive) ==
    LET ctx == IF "parent" \in DOMAIN value THEN value ELSE Context(<<>>, VNone, value, <<>>)
    IN  CASE ctx.data.t = "dict" -> evaluate_dict(self, ctx, recursive)
          [] ctx.data.t = "list" -> evaluate_list(self, ctx, recursive)
          [] ctx.data.t = "str" -> evaluate_string(self, ctx)
          [] OTHER -> Return(ctx.data)

----------------------------------------------------------------------------
(* __init__.py: TemplateEngine with its nested Context class.  The Context  *)
(* record and its __post_init__ are those above; its keys are str or None. *)

RECURSIVE pkg_trace_location(_)
pkg_trace_location(ctx) ==
    IF ctx.parent = <<>> THEN <<"$">>
    ELSE IF isdigit(ctx.key.v) \/ isidentifier(ctx.key.v)
         THEN pkg_trace_location(ctx.parent[1]) \o <<".">> \o ctx.key.v
         ELSE pkg_trace_location(ctx.parent[1]) \o <<".", "'">> \o ctx.key.v \o <<"'">>

pkg_error(ctx, message) == Raise("TemplateError", pkg_trace_location(ctx), message)

RECURSIVE pkg_scope_chainmap(_, _)
pkg_scope_chainmap(ctx, globals_) ==
    <<ctx.scope>> \o (IF ctx.parent # <<>> THEN pkg_scope_chainmap(ctx.parent[1], globals_)
                      ELSE <<globals_>>)

pkg_eval_outcome(ctx, r) ==
    IF r.ok THEN Return(r.val) ELSE pkg_error(ctx, "Failed to evaluate the expression")

pkg_evaluate_expression(self, ctx) ==
    pkg_eval_outcome(ctx, eval(ctx.data.v, dict_of_chainmap(pkg_scope_chainmap(ctx, self.globals))))

RECURSIVE pkg_re_sub(_, _, _, _)
\* _repl, which raises a ValueError for a result that is no plain value
pkg_repl(self, ctx, from, out, m, r) ==
    IF ~r.ok THEN r
    ELSE IF ~is_plain(r.val) THEN Raise("ValueError", <<>>, "Expected a plain value")
    ELSE pkg_re_sub(self, ctx, m[2] + 3,
                    out \o SubSeq(ctx.data.v, from, m[1] - 1) \o repl_text(r.val))

pkg_re_sub_match(self, ctx, from, out, m) ==
    IF m[1] = 0 THEN Return(VStr(out \o SubSeq(ctx.data.v, from, Len(ctx.data.v))))
    ELSE pkg_repl(self, ctx, from, out, m,
                  pkg_evaluate_expression(self, Context(ctx.parent, ctx.key,
                                                        VStr(SubSeq(ctx.data.v, m[1] + 3, m[2])), <<>>)))

pkg_re_sub(self, ctx, from, out) ==
    pkg_re_sub_match(self, ctx, from, out, marker_search(ctx.data.v, from))

pkg_evaluate_string(self, ctx) ==
    IF is_whole_marker(ctx.data.v)
    THEN pkg_evaluate_expression(self, Context(ctx.parent, ctx.key, VStr(SubSeq(ctx.data.v, 4, Len(ctx.data.v) - 2)), <<>>))
    ELSE pkg_re_sub(self, ctx, 1, <<>>)

RECURSIVE pkg_evaluate(_, _), pkg_evaluate_dict(_, _), pkg_dict_loop(_, _, _, _),
          pkg_for_loop(_, _, _, _, _, _, _), pkg_evaluate_list(_, _), pkg_list_loop(_, _, _, _)

\* __init__.py 89-93: the entry is an if block
pkg_if_block(self, ctx, key, value, result) ==
    LET subctx == Context(<<ctx>>, VStr(key), value, <<>>)
    IN  IF value.t # "dict"
        THEN pkg_error(subctx, "The value of an if block must be a dictionary.")
        ELSE LET cond == pkg_evaluate_expression(self, Context(<<ctx>>, VStr(key), VStr(SubSeq(key, 4, Len(key) - 1)), <<>>))
             IN  IF ~cond.ok THEN cond
                 ELSE IF ~truthy(cond.val) THEN Return(VDict(result))
                 ELSE LET out == pkg_evaluate_dict(self, Context(<<ctx>>, VStr(key), value, <<>>))
                      IN  IF ~out.ok THEN out
                          ELSE Return(VDict(dict_update(result, out.val.v)))

\* __init__.py 111-112: for idx, item in enumerate(it), from the (0-based) index idx on
pkg_for_loop(self, subctx, var, items, value, idx, result) ==
    IF idx >= Len(items) THEN Return(VDict(result))
    ELSE LET out == pkg_evaluate_dict(self, Context(<<subctx>>, VStr(IntToStr(idx)), value,
                                <<<<var, items[idx + 1]>>>>))
         IN  IF ~out.ok THEN out
             ELSE pkg_for_loop(self, subctx, var, items, value, idx + 1,
                               dict_update(result, out.val.v))

\* __init__.py 95-112: the entry is a for block
pkg_for_block(self, ctx, key, value, result) ==
    LET subctx == Context(<<ctx>>, VStr(key), value, <<>>)
        expr == SubSeq(key, 5, Len(key) - 1)
        sep == <<" ", "i", "n", " ">>
        parts == split(expr, sep)
    IN  IF value.t # "dict"
        THEN pkg_error(subctx, "The value of a for block must be a dictionary.")
        ELSE IF ~contains(expr, sep)
        THEN pkg_error(subctx, "Invalid for block expression (missing 'in')")
        ELSE IF Len(parts) # 2
        THEN Raise("ValueError", <<>>, "too many values to unpack (expected 2)")
        ELSE IF ~isidentifier(parts[1])
        THEN pkg_error(subctx, "Invalid for block variable (not an identifier)")
        ELSE LET it == pkg_evaluate_expression(self, Context(<<ctx>>, VStr(key), VStr(parts[2]), <<>>))
             IN  IF ~it.ok THEN it
                 ELSE IF ~is_iterable(it.val)
                 THEN pkg_error(subctx, "The iterable of a for block must be iterable")
                 ELSE pkg_for_loop(self, subctx, parts[1], iter_items(it.val), value, 0, result)

\* __init__.py 114-118: an ordinary entry
pkg_plain_entry(self, ctx, key, value, result) ==
    LET subctx == Context(<<ctx>>, VStr(key), value, <<>>)
        key_value == pkg_evaluate_string(self, Context(<<ctx>>, VStr(key), VStr(key), <<>>))
    IN  IF ~key_value.ok THEN key_value
        ELSE IF key_value.val.t # "str"
        THEN pkg_error(subctx, "Expected a string key")
        ELSE LET out == pkg_evaluate(self, Context(<<ctx>>, VStr(key), value, <<>>))
             IN  IF ~out.ok THEN out
                 ELSE Return(VDict(dict_setitem(result, key_value.val.v, out.val)))

\* __init__.py 89, 95: which branch of evaluate_dict takes the key
pkg_key_kind(key) ==
    IF startswith(key, <<"i","f","(">>) /\ endswith(key, <<")">>) THEN "if"
    ELSE IF startswith(key, <<"f","o","r","(">>) /\ endswith(key, <<")">>) THEN "for"
    ELSE "plain"

\* __init__.py 86-118: for key, value in ctx.data.items(), from item i on
pkg_dict_loop(self, ctx, i, result) ==
    IF i > Len(ctx.data.v) THEN Return(VDict(result))
    ELSE LET key == ctx.data.v[i][1]
             value == ctx.data.v[i][2]
             kind == pkg_key_kind(key)
             out == CASE kind = "if" -> pkg_if_block(self, ctx, key, value, result)
                      [] kind = "for" -> pkg_for_block(self, ctx, key, value, result)
                      [] OTHER -> pkg_plain_entry(self, ctx, key, value, result)
         IN  IF ~out.ok THEN out ELSE pkg_dict_loop(self, ctx, i + 1, out.val.v)

pkg_evaluate_dict(self, ctx) == pkg_dict_loop(self, ctx, 1, <<>>)

\* __init__.py 127: self.Context(ctx, None, item)
pkg_list_item_context(ctx, item) == Context(<<ctx>>, VNone, item, <<>>)

pkg_list_loop(self, ctx, idx, out) ==
    IF idx >= Len(ctx.data.v) THEN Return(VList(out))
    ELSE IF ~post_init_ok(<<ctx>>, pkg_list_item_context(ctx, ctx.data.v[idx + 1]).key)
    THEN Raise("AssertionError", <<>>, "The key must be provided if the parent is provided.")
    ELSE LET r == pkg_evaluate(self, pkg_list_item_context(ctx, ctx.data.v[idx + 1]))
         IN  IF ~r.ok THEN r ELSE pkg_list_loop(self, ctx, idx + 1, Append(out, r.val))

pkg_evaluate_list(self, ctx) == pkg_list_loop(self, ctx, 0, <<>>)

pkg_evaluate(self, value) ==
    LET ctx == IF "parent" \in DOMAIN value THEN value ELSE Context(<<>>, VNone, value, <<>>)
    IN  CASE ctx.data.t = "dict" -> pkg_evaluate_dict(self, ctx)
          [] ctx.data.t = "list" -> pkg_evaluate_list(self, ctx)
          [] ctx.data.t = "str" -> pkg_evaluate_string(self, ctx)
          [] OTHER -> Return(ctx.data)

\* TemplateEngine.__init__: self.globals = globals_ or {}
TemplateEngine(globals_) == [globals |-> globals_]

\* the call cls(globals_).evaluate(value[, recursive]); cls is "package" for the
\* class of __init__.py and "engine" for the class of engine.py
Call(cls, globals_, value, recursive) ==
    IF cls = "package" THEN pkg_evaluate(TemplateEngine(globals_), value)
    ELSE evaluate(TemplateEngine(globals_), value, recursive)

----------------------------------------------------------------------------
(* The engines, globals and templates the model is run on *)

\* the longest list a for block iterates over
MaxItems == 3

\* the list [0, 1, 0, ...] of n elements
Alternating(n) == VList([j \in 1..n |-> VInt((j - 1) % 2)])

\* TemplateEngine(globals_): t, f, n, g, s, d and the list l of n elements;
\* the names i, q and x are bound by no globals
GlobalsWith(n) ==
    << <<<<"t">>, VBool(TRUE)>>, <<<<"f">>, VBool(FALSE)>>, <<<<"n">>, VNone>>,
       <<<<"g">>, VInt(7)>>, <<<<"s">>, VStr(<<"a", "b">>)>>,
       <<<<"d">>, VDict(<< <<<<"a">>, VInt(1)>> >>)>>,
       <<<<"l">>, Alternating(n)>> >>

\* values of ordinary entries and elements of sequences
Leaves ==
    {VInt(1),  \* 1
      VNone,  \* null
      VBool(TRUE),  \* true
      VStr(<<"v">>),  \* "v"
      VStr(<<"$","{","{","i","}","}">>),  \* "${{i}}"
      VStr(<<"$","{","{"," ","1"," ","+"," ","1"," ","}","}">>),  \* "${{ 1 + 1 }}"
      VStr(<<"a","$","{","{","1","+","1","}","}","b">>),  \* "a${{1+1}}b"
      VStr(<<"$","{","{","l","}","}">>),  \* "${{l}}"
      VStr(<<"x","$","{","{","l","}","}","y">>),  \* "x${{l}}y"
      VStr(<<"a","$","{","{","n","}","}","b">>),  \* "a${{n}}b"
      VStr(<<"a","$","{","{","g">>),  \* "a${{g"
      VStr(<<"$","{","{","q","}","}">>),  \* "${{q}}"
      VStr(<<"$","{","{","g","}","}","-","$","{","{","g","}","}">>),  \* "${{g}}-${{g}}"
      VStr(<<"v","$","{","{","g","}","}","$","{","{","i","}","}">>),  \* "v${{g}}${{i}}"
      VStr(<<"$","{","{","d","}","}">>),  \* "${{d}}"
      VStr(<<"$","{","{","n","}","}">>),  \* "${{n}}"
      VStr(<<"$","{","{","}","}">>),  \* "${{}}"
      VStr(<<"a","$","{","{","}","}","b">>),  \* "a${{}}b"
      VList(<<>>),  \* []
      VList(<<VInt(1), VStr(<<"$","{","{","i","}","}">>)>>),  \* [1, "${{i}}"]
      VList(<<VStr(<<"a","$","{","{","g","}","}","b">>), VList(<<VNone, VStr(<<"$","{","{","g","}","}">>)>>)>>),  \* ["a${{g}}b", [null, "${{g}}"]]
      VDict(<<<<<<"a">>, VStr(<<"$","{","{","i","}","}">>)>>>>),  \* {"a": "${{i}}"}
      VDict(<<<<<<"k","$","{","{","i","}","}">>, VList(<<VInt(1)>>)>>>>)   \* {"k${{i}}": [1]}
    }

\* keys of ordinary entries
PlainKeys ==
    {<<"a">>,  \* "a"
      <<"b">>,  \* "b"
      <<"k","$","{","{","i","}","}">>,  \* "k${{i}}"
      <<"$","{","{","s","}","}">>,  \* "${{s}}"
      <<"$","{","{","g","}","}">>,  \* "${{g}}"
      <<"k","$","{","{","n","}","}">>   \* "k${{n}}"
    }

\* keys of control blocks, well-formed and malformed
ControlKeys ==
    {<<"i","f","(","t",")">>,  \* "if(t)"
      <<"i","f","(","f",")">>,  \* "if(f)"
      <<"i","f","(","q",")">>,  \* "if(q)"
      <<"i","f","(","l",")">>,  \* "if(l)"
      <<"f","o","r","(","i"," ","i","n"," ","l",")">>,  \* "for(i in l)"
      <<"f","o","r","(","i"," ","i","n"," ","5",")">>,  \* "for(i in 5)"
      <<"f","o","r","(","i"," ","i","n"," ","l"," ","i","n"," ","l",")">>,  \* "for(i in l in l)"
      <<"f","o","r","(","i"," ","l",")">>,  \* "for(i l)"
      <<"f","o","r","(","1"," ","i","n"," ","l",")">>,  \* "for(1 in l)"
      <<"f","o","r","(","i"," ","i","n"," ","s",")">>,  \* "for(i in s)"
      <<"f","o","r","(","g"," ","i","n"," ","l",")">>,  \* "for(g in l)"
      <<"f","o","r","(","i"," ","i","n"," ","q",")">>,  \* "for(i in q)"
      <<"w","i","t","h","(","i","=","5",")">>,  \* "with(i=5)"
      <<"w","i","t","h","(","g","=","5",")">>,  \* "with(g=5)"
      <<"w","i","t","h","(","x","=","1","=","1",")">>,  \* "with(x=1=1)"
      <<"w","i","t","h","(","i"," ","5",")">>,  \* "with(i 5)"
      <<"w","i","t","h","(","1","=","5",")">>,  \* "with(1=5)"
      <<"w","i","t","h","(","i","=","q",")">>   \* "with(i=q)"
    }

\* values of control blocks
Bodies ==
    {VDict(<<<<<<"k","$","{","{","i","}","}">>, VStr(<<"v","$","{","{","i","}","}">>)>>>>),  \* {"k${{i}}": "v${{i}}"}
      VDict(<<<<<<"a">>, VStr(<<"$","{","{","i","}","}">>)>>>>),  \* {"a": "${{i}}"}
      VDict(<<<<<<"a">>, VStr(<<"$","{","{","g","}","}">>)>>>>),  \* {"a": "${{g}}"}
      VDict(<<<<<<"a">>, VInt(1)>>, <<<<"c">>, VInt(2)>>>>),  \* {"a": 1, "c": 2}
      VInt(5),  \* 5
      VStr(<<"$","{","{","d","}","}">>),  \* "${{d}}"
      VDict(<<>>),  \* {}
      VDict(<<<<<<"w","i","t","h","(","i","=","5",")">>, VDict(<<<<<<"c">>, VStr(<<"$","{","{","i","}","}">>)>>>>)>>, <<<<"b">>, VStr(<<"$","{","{","i","}","}">>)>>>>),  \* {"with(i=5)": {"c": "${{i}}"}, "b": "${{i}}"}
      VDict(<<<<<<"b">>, VStr(<<"$","{","{","g","}","}">>)>>, <<<<"f","o","r","(","g"," ","i","n"," ","l",")">>, VDict(<<<<<<"c","$","{","{","g","}","}">>, VStr(<<"$","{","{","g","}","}">>)>>>>)>>, <<<<"e">>, VStr(<<"$","{","{","g","}","}">>)>>>>),  \* {"b": "${{g}}", "for(g in l)": {"c${{g}}": "${{g}}"}, "e": "${{g}}"}
      VDict(<<<<<<"m">>, VDict(<<<<<<"a">>, VStr(<<"$","{","{","i","}","}">>)>>>>)>>>>),  \* {"m": {"a": "${{i}}"}}
      VDict(<<<<<<"m">>, VList(<<VStr(<<"$","{","{","i","}","}">>), VStr(<<"$","{","{","g","}","}">>)>>)>>>>),  \* {"m": ["${{i}}", "${{g}}"]}
      VDict(<<<<<<"a">>, VStr(<<"$","{","{","q","}","}">>)>>>>),  \* {"a": "${{q}}"}
      VDict(<<<<<<"i","f","(","t",")">>, VDict(<<<<<<"a">>, VStr(<<"$","{","{","i","}","}">>)>>>>)>>>>)   \* {"if(t)": {"a": "${{i}}"}}
    }

\* the templates of test_templating.py, the list l in the place of range(3)
TestTemplates ==
    {VDict(<<<<<<"i","f","(","T","r","u","e",")">>, VDict(<<<<<<"a">>, VInt(42)>>>>)>>, <<<<"i","f","(","F","a","l","s","e",")">>, VDict(<<<<<<"b">>, VInt(24)>>>>)>>>>),  \* {"if(True)": {"a": 42}, "if(False)": {"b": 24}}
      VDict(<<<<<<"f","o","r","(","i"," ","i","n"," ","l",")">>, VDict(<<<<<<"k","e","y","$","{","{","i","}","}">>, VStr(<<"v","a","l","u","e","$","{","{","i","}","}">>)>>>>)>>>>),  \* {"for(i in l)": {"key${{i}}": "value${{i}}"}}
      VDict(<<<<<<"k","e","y">>, VStr(<<"$","{","{"," ","1"," ","+"," ","1"," ","}","}">>)>>>>)   \* {"key": "${{ 1 + 1 }}"}
    }

MainEntries ==
    {<<k, v>> : k \in PlainKeys, v \in Leaves} \cup {<<k, b>> : k \in ControlKeys, b \in Bodies}

\* entries before the main entry: none, "k0": "p", or "z": "${{g}}"
Before ==
    { <<>>,
      << <<<<"k","0">>, VStr(<<"p">>)>> >>,
      << <<<<"z">>, VStr(<<"$","{","{","g","}","}">>)>> >> }

\* entries after the main entry: none, "a": "o", or "y": "${{g}}"
After ==
    { <<>>,
      << <<<<"a">>, VStr(<<"o">>)>> >>,
      << <<<<"y">>, VStr(<<"$","{","{","g","}","}">>)>> >> }

UniqueKeys(items) ==
    \A i, j \in 1..Len(items) : items[i][1] = items[j][1] => i = j

Templates ==
    {VDict(pre \o <<e>> \o post) : pre \in Before, e \in MainEntries, post \in After}
    \cup {VDict(<< <<<<"m">>, VDict(<<e>>)>> >>) : e \in MainEntries}
    \cup {VList(<<VInt(1), VDict(<<e>>)>>) : e \in MainEntries}
    \cup Leaves \cup TestTemplates

----------------------------------------------------------------------------
(* The state machine: an engine is constructed with its globals and handed *)
(* a template; evaluate is called on it, fully or shallowly.               *)

Init ==
    /\ impl \in {"package", "engine"}
    /\ globals \in {GlobalsWith(n) : n \in 0..MaxItems}
    /\ template \in {t \in Templates : t.t = "dict" => UniqueKeys(t.v)}
    /\ mode = "ready"
    /\ outcome = Return(VNone)

\* engine.evaluate(template)
Evaluate ==
    /\ mode = "ready"
    /\ mode' = "full"
    /\ outcome' = Call(impl, globals, template, TRUE)
    /\ UNCHANGED <<impl, globals, template>>

\* engine.evaluate(template, recursive=False), which only engine.py offers
EvaluateShallow ==
    /\ mode = "ready"
    /\ impl = "engine"
    /\ mode' = "shallow"
    /\ outcome' = Call(impl, globals, template, FALSE)
    /\ UNCHANGED <<impl, globals, template>>

Next == Evaluate \/ EvaluateShallow

Spec == Init /\ [][Next]_vars

----------------------------------------------------------------------------
(* What the claims are stated with *)

Done == mode # "ready"

Full == mode = "full"

\* the call that produced `outcome`, on another template
Run(value) == Call(impl, globals, value, Full)

\* the same call on an engine whose globals also bind var to val
RunWith(var, val, value) == Call(impl, dict_setitem(globals, var, val), value, Full)

BlockText(key, prefix) == SubSeq(key, Len(prefix) + 1, Len(key) - 1)

IsBlock(key, prefix) == startswith(key, prefix) /\ endswith(key, <<")">>)

IfPrefix == <<"i","f","(">>

ForPrefix == <<"f","o","r","(">>

WithPrefix == <<"w","i","t","h","(">>

InSep == <<" ","i","n"," ">>

\* an expression of a top-level entry sees the engine globals alone
TopEval(source) == eval(source, globals)

EntriesBefore(k) == VDict(SubSeq(template.v, 1, k - 1))

EntriesAfter(k) == VDict(SubSeq(template.v, k + 1, Len(template.v)))

\* a dict built by the writes ws, in order: the keys in the order of their first
\* write, each with the value of its last write
LastWriteWins(ws) ==
    LET first == {i \in 1..Len(ws) : \A j \in 1..(i - 1) : ws[j][1] # ws[i][1]}
        nth(r) == CHOOSE i \in first : Cardinality({j \in first : j < i}) = r - 1
        last(key) == CHOOSE i \in 1..Len(ws) :
                        ws[i][1] = key /\ \A j \in (i + 1)..Len(ws) : ws[j][1] # key
    IN  [r \in 1..Cardinality(first) |-> <<ws[nth(r)][1], ws[last(ws[nth(r)][1])][2]>>]

RECURSIVE Flatten(_)
Flatten(seqs) == IF Len(seqs) = 0 THEN <<>> ELSE seqs[1] \o Flatten(Tail(seqs))

\* a for block `key` whose header parses: one " in ", an identifier, an iterable
ForHeader(key) ==
    LET parts == split(BlockText(key, ForPrefix), InSep)
        it == IF Len(parts) = 2 THEN TopEval(parts[2]) ELSE EvalFail
    IN  [ok |-> IsBlock(key, ForPrefix) /\ Len(parts) = 2 /\ isidentifier(parts[1])
                  /\ it.ok /\ is_iterable(it.val),
         var |-> parts[1],
         items |-> IF it.ok /\ is_iterable(it.val) THEN iter_items(it.val) ELSE <<>>]

\* a with block `key` whose header parses: one "=", an identifier, a value
WithHeader(key) ==
    LET parts == split(BlockText(key, WithPrefix), <<"=">>)
        val == IF Len(parts) = 2 THEN TopEval(parts[2]) ELSE EvalFail
    IN  [ok |-> IsBlock(key, WithPrefix) /\ Len(parts) = 2 /\ isidentifier(parts[1]) /\ val.ok,
         var |-> parts[1],
         val |-> val.val]

----------------------------------------------------------------------------
\* C1: an if(<expr>) entry whose <expr> is true merges the entries of its body
\* mapping (evaluated, in a full evaluation) into the result at the level of the
\* if key, between what the entries before it and the entries after it produce, and
\* the if key is no key of the result; an if entry whose <expr> is false
\* contributes nothing: the result is that of the template without the entry.
C1_IfBlock ==
    (Done /\ template.t = "dict") =>
        \A k \in 1..Len(template.v) :
            LET key == template.v[k][1]
                body == template.v[k][2]
                cond == TopEval(BlockText(key, IfPrefix))
                pre == Run(EntriesBefore(k))
                post == Run(EntriesAfter(k))
                merged == IF Full THEN Run(body) ELSE Return(body)
            IN  (IsBlock(key, IfPrefix) /\ body.t = "dict" /\ cond.ok /\ pre.ok) =>
                    IF ~truthy(cond.val)
                    THEN outcome = Run(VDict(EntriesBefore(k).v \o EntriesAfter(k).v))
                    ELSE IF merged.ok /\ post.ok
                    THEN outcome = Return(VDict(
                             dict_update(dict_update(pre.val.v, merged.val.v), post.val.v)))
                    ELSE ~outcome.ok

\* C1's case: the template of test_dict_if_condition, {"if(True)": {"a": 42},
\* "if(False)": {"b": 24}}, has been evaluated to {"a": 42}
C1_Witness ==
    /\ Done
    /\ template \in TestTemplates
    /\ template.t = "dict" /\ Len(template.v) = 2
    /\ IsBlock(template.v[1][1], IfPrefix) /\ truthy(TopEval(BlockText(template.v[1][1], IfPrefix)).val)
    /\ IsBlock(template.v[2][1], IfPrefix) /\ ~truthy(TopEval(BlockText(template.v[2][1], IfPrefix)).val)
    /\ outcome = Return(VDict(<< <<<<"a">>, VInt(42)>> >>))

----------------------------------------------------------------------------
\* one iteration of a for block: the body evaluated in a root Context whose own
\* scope binds var to item
BodyUnder(var, item, body) ==
    IF impl = "package"
    THEN pkg_evaluate(TemplateEngine(globals), Context(<<>>, VNone, body, << <<var, item>> >>))
    ELSE evaluate(TemplateEngine(globals), Context(<<>>, VNone, body, << <<var, item>> >>), TRUE)

\* C2: in a full evaluation a for(<var> in <iterable>) entry evaluates its body once
\* per element, in iteration order, with <var> bound to the element, and the
\* result is the dict built by writing, in order, what the entries before the
\* block produce, each iteration's entries, and what the entries after it produce:
\* keys in the order of their first write, each with the value written last.
C2_ForBlock ==
    (Done /\ Full /\ template.t = "dict") =>
        \A k \in 1..Len(template.v) :
            LET key == template.v[k][1]
                body == template.v[k][2]
                header == ForHeader(key)
                pre == Run(EntriesBefore(k))
                post == Run(EntriesAfter(k))
                iterations == [j \in 1..Len(header.items) |->
                                  BodyUnder(header.var, header.items[j], body)]
            IN  (header.ok /\ body.t = "dict" /\ pre.ok) =>
                    IF post.ok /\ \A j \in 1..Len(iterations) : iterations[j].ok
                    THEN outcome = Return(VDict(LastWriteWins(
                             pre.val.v
                             \o Flatten([j \in 1..Len(iterations) |-> iterations[j].val.v])
                             \o post.val.v)))
                    ELSE ~outcome.ok

\* C2's case: {"k0": "p", "for(i in l)": {"k${{i}}": "v${{i}}"}} with l = [0, 1, 0]
\* has been evaluated to {"k0": "v0", "k1": "v1"}: three iterations, the first
\* replacing the value of the earlier entry "k0", the third that of the first
C2_Witness ==
    /\ Done /\ Full /\ template.t = "dict" /\ Len(template.v) = 2
    /\ template.v[1] = <<<<"k","0">>, VStr(<<"p">>)>>
    /\ ForHeader(template.v[2][1]).ok
    /\ ForHeader(template.v[2][1]).items = <<VInt(0), VInt(1), VInt(0)>>
    /\ outcome = Return(VDict(<< <<<<"k","0">>, VStr(<<"v","0">>)>>,
                                 <<<<"k","1">>, VStr(<<"v","1">>)>> >>))

----------------------------------------------------------------------------
\* a string that starts with the delimiter ${{ and ends with the delimiter }}
WholeMarker(s) ==
    /\ Len(s) >= 5
    /\ SubSeq(s, 1, 3) = <<"$","{","{">>
    /\ SubSeq(s, Len(s) - 1, Len(s)) = <<"}","}">>

InnerText(s) == SubSeq(s, 4, Len(s) - 2)

\* C3: a string that is one whole marker ${{ <expr> }} evaluates to the raw result
\* of evaluating <expr> once, whatever its type (a number stays a number, a
\* sequence a sequence), both as the template itself and as the value of an
\* entry; it fails when <expr> fails.
C3_WholeString ==
    Done =>
        /\ (template.t = "str" /\ WholeMarker(template.v)) =>
               LET r == TopEval(InnerText(template.v))
               IN  IF r.ok THEN outcome = Return(r.val) ELSE ~outcome.ok
        /\ (template.t = "dict" /\ Len(template.v) = 1 /\ template.v[1][2].t = "str"
               /\ template.v[1][1] \in {<<"a">>, <<"b">>, <<"k","e","y">>}
               /\ WholeMarker(template.v[1][2].v)) =>
               LET r == TopEval(InnerText(template.v[1][2].v))
               IN  IF r.ok THEN outcome = Return(VDict(<< <<template.v[1][1], r.val>> >>))
                   ELSE ~outcome.ok

\* C3's case: {"key": "${{ 1 + 1 }}"} has been evaluated to {"key": 2}
C3_Witness ==
    /\ Done
    /\ template = VDict(<< <<<<"k","e","y">>,
                            VStr(<<"$","{","{"," ","1"," ","+"," ","1"," ","}","}">>)>> >>)
    /\ outcome = Return(VDict(<< <<<<"k","e","y">>, VInt(2)>> >>))

----------------------------------------------------------------------------
\* C4: every failure of evaluate reaches the caller as a TemplateError that
\* carries the trace path of a Context (it starts at the root, $).
C4_OnlyTemplateErrors ==
    (Done /\ impl = "engine" /\ ~outcome.ok) =>
        /\ outcome.err.type = "TemplateError"
        /\ Len(outcome.err.path) >= 1 /\ outcome.err.path[1] = "$"

----------------------------------------------------------------------------
\* the entries the blocks of one item sequence contribute, each body evaluated by
\* an engine whose globals bind var to the item
RECURSIVE BoundIterations(_, _, _)
BoundIterations(var, items, body) ==
    IF Len(items) = 0 THEN Return(VDict(<<>>))
    ELSE LET one == RunWith(var, items[1], body)
             rest == BoundIterations(var, Tail(items), body)
         IN  IF ~one.ok THEN one
             ELSE IF ~rest.ok THEN rest
             ELSE Return(VDict(dict_update(one.val.v, rest.val.v)))

\* C5: every expression inside the body of a with(<var>=...) or for(<var> in ...)
\* block, at any depth, sees <var> bound as the block binds it, over an enclosing
\* block's or the globals' binding of the name: the block contributes what its
\* body evaluates to on an engine whose globals bind <var> that way.  The entries
\* before and after the block evaluate as they do without it.
C5_Scope ==
    (Done /\ template.t = "dict") =>
        \A k \in 1..Len(template.v) :
            LET key == template.v[k][1]
                body == template.v[k][2]
                for == ForHeader(key)
                with == WithHeader(key)
                pre == Run(EntriesBefore(k))
                post == Run(EntriesAfter(k))
                inner == IF for.ok THEN BoundIterations(for.var, for.items, body)
                         ELSE RunWith(with.var, with.val, body)
            IN  (/\ body.t = "dict" /\ pre.ok
                 /\ \/ for.ok /\ Full
                    \/ with.ok /\ impl = "engine") =>
                    IF inner.ok /\ post.ok
                    THEN outcome = Return(VDict(
                             dict_update(dict_update(pre.val.v, inner.val.v), post.val.v)))
                    ELSE ~outcome.ok

\* C5's case: {"z": "${{g}}", "with(g=5)": {"b": "${{g}}", "for(g in l)":
\* {"c${{g}}": "${{g}}"}, "e": "${{g}}"}, "y": "${{g}}"} on globals g = 7 and
\* l = [0, 1, 0] has been evaluated to {z: 7, b: 5, c0: 0, c1: 1, e: 5, y: 7}
C5_Witness ==
    /\ Done /\ Full /\ impl = "engine" /\ template.t = "dict" /\ Len(template.v) = 3
    /\ WithHeader(template.v[2][1]).ok
    /\ WithHeader(template.v[2][1]).var = <<"g">>
    /\ dict_get(globals, <<"g">>) = VInt(7)
    /\ outcome = Return(VDict(<< <<<<"z">>, VInt(7)>>, <<<<"b">>, VInt(5)>>,
                                 <<<<"c","0">>, VInt(0)>>, <<<<"c","1">>, VInt(1)>>,
                                 <<<<"e">>, VInt(5)>>, <<<<"y">>, VInt(7)>> >>))

----------------------------------------------------------------------------
\* C6: a sequence whose elements each evaluate evaluates to the sequence, of the
\* same length, of their evaluations, in order.
C6_Sequence ==
    (Done /\ template.t = "list") =>
        LET items == [j \in 1..Len(template.v) |-> Run(template.v[j])]
        IN  (\A j \in 1..Len(items) : items[j].ok) =>
                outcome = Return(VList([j \in 1..Len(items) |-> items[j].val]))

----------------------------------------------------------------------------
\* the text an inline marker's result is replaced by
InlineText(x) == IF x.t = "none" THEN <<>> ELSE str(x)

\* the string s with its markers, found leftmost first and each closed by the first
\* }} after at least one character, replaced by the text of their results
RECURSIVE Interpolated(_)
Interpolated(s) ==
    LET p == find(s, <<"$","{","{">>, 1)
        q == IF p = 0 THEN 0 ELSE find(s, <<"}","}">>, p + 4)
        r == TopEval(SubSeq(s, p + 3, q - 1))
        rest == Interpolated(SubSeq(s, q + 2, Len(s)))
    IN  IF p = 0 \/ q = 0 THEN [ok |-> TRUE, text |-> s]
        ELSE IF ~r.ok \/ r.val.t \in {"list", "dict"} \/ ~rest.ok
        THEN [ok |-> FALSE, text |-> <<>>]
        ELSE [ok |-> TRUE, text |-> SubSeq(s, 1, p - 1) \o InlineText(r.val) \o rest.text]

\* C7: a string that is not one whole marker evaluates to the string with every
\* marker replaced by the text of its result, nothing for None, and all other
\* characters unchanged; it fails when a marker's result is a sequence or mapping.
C7_Inline ==
    (Done /\ template.t = "str" /\ ~WholeMarker(template.v)) =>
        LET want == Interpolated(template.v)
        IN  IF want.ok THEN outcome = Return(VStr(want.text)) ELSE ~outcome.ok

\* C7's case: "a${{1+1}}b" has been evaluated to "a2b"
C7_Witness ==
    /\ Done
    /\ template = VStr(<<"a","$","{","{","1","+","1","}","}","b">>)
    /\ outcome = Return(VStr(<<"a","2","b">>))

----------------------------------------------------------------------------
HasMarker(s) ==
    \E p \in 1..Len(s) : OccursAt(s, <<"$","{","{">>, p)
                           /\ \E q \in (p + 3)..Len(s) : OccursAt(s, <<"}","}">>, q)

IsControlKey(key) ==
    IsBlock(key, IfPrefix) \/ IsBlock(key, ForPrefix) \/ IsBlock(key, WithPrefix)

\* a template with no control-flow key and no interpolation marker
RECURSIVE IsLiteral(_)
IsLiteral(x) ==
    CASE x.t = "str" -> ~HasMarker(x.v)
      [] x.t = "list" -> \A j \in 1..Len(x.v) : IsLiteral(x.v[j])
      [] x.t = "dict" -> \A j \in 1..Len(x.v) :
                            /\ ~IsControlKey(x.v[j][1]) /\ ~HasMarker(x.v[j][1])
                            /\ IsLiteral(x.v[j][2])
      [] OTHER -> TRUE

\* C8: a template with no control-flow key and no interpolation marker evaluates
\* to itself.
C8_Identity == (Done /\ IsLiteral(template)) => outcome = Return(template)

----------------------------------------------------------------------------
\* one step of a trace path as the claim renders it: .key for a non-negative
\* integer (a sequence index or a for-iteration index) or an identifier, .'key'
\* for any other key
PathStep(key) ==
    IF key.t = "int" \/ isdigit(key.v) \/ isidentifier(key.v)
    THEN <<".">> \o str(key)
    ELSE <<".", "'">> \o str(key) \o <<"'">>

RECURSIVE PathOf(_)
PathOf(keys) ==
    IF Len(keys) = 0 THEN <<"$">>
    ELSE PathOf(SubSeq(keys, 1, Len(keys) - 1)) \o PathStep(keys[Len(keys)])

\* C9: an expression failure in mapping -> for-body -> string reports the path
\* $, the mapping key, the for(...) key quoted, the iteration index, the key of the
\* failing string: {"m": {"for(i in l)": {"a": "${{q}}"}}} fails at
\* $.m.'for(i in l)'.0.a
C9_TracePath ==
    (/\ Done /\ Full /\ impl = "engine"
     /\ template.t = "dict" /\ Len(template.v) = 1 /\ template.v[1][1] = <<"m">>
     /\ template.v[1][2].t = "dict" /\ Len(template.v[1][2].v) = 1
     /\ ForHeader(template.v[1][2].v[1][1]).ok
     /\ Len(ForHeader(template.v[1][2].v[1][1]).items) > 0
     /\ template.v[1][2].v[1][2] = VDict(<< <<<<"a">>, VStr(<<"$","{","{","q","}","}">>)>> >>)) =>
        /\ ~outcome.ok
        /\ outcome.err.type = "TemplateError"
        /\ outcome.err.path = PathOf(<<VStr(<<"m">>), VStr(template.v[1][2].v[1][1]),
                                       VInt(0), VStr(<<"a">>)>>)

----------------------------------------------------------------------------
\* the key of the entry a shallow for block emits for one element
SyntheticKey(var, item) == WithPrefix \o var \o <<"=">> \o repr(item) \o <<")">>

\* C10 as stated: in shallow mode a for block over n elements contributes exactly
\* n entries, the j-th keyed with(<var>=<repr of the j-th element>) and mapped to
\* the unexpanded body.
C10_OneEntryPerElement ==
    (/\ Done /\ mode = "shallow" /\ template.t = "dict" /\ Len(template.v) = 1
     /\ ForHeader(template.v[1][1]).ok /\ template.v[1][2].t = "dict") =>
        LET header == ForHeader(template.v[1][1])
        IN  outcome = Return(VDict([j \in 1..Len(header.items) |->
                <<SyntheticKey(header.var, header.items[j]), template.v[1][2]>>]))

\* C10, amended: in shallow mode a for block writes, for each element in iteration
\* order, the entry with(<var>=<repr of the element>) mapped to the unexpanded
\* body, a later write to a key replacing the earlier one: one entry per distinct
\* element, in the order of first occurrence, and n only when the elements differ.
C10_OneEntryPerDistinctElement ==
    (Done /\ mode = "shallow" /\ template.t = "dict") =>
        \A k \in 1..Len(template.v) :
            LET header == ForHeader(template.v[k][1])
                body == template.v[k][2]
                pre == Run(EntriesBefore(k))
                post == Run(EntriesAfter(k))
                distinct == {j \in 1..Len(header.items) :
                                \A h \in 1..(j - 1) : header.items[h] # header.items[j]}
                emitted == LastWriteWins([j \in 1..Len(header.items) |->
                               <<SyntheticKey(header.var, header.items[j]), body>>])
            IN  (header.ok /\ body.t = "dict" /\ pre.ok) =>
                    /\ Len(emitted) = Cardinality(distinct)
                    /\ \A j \in 1..Len(emitted) : emitted[j][2] = body
                    /\ IF post.ok
                       THEN outcome = Return(VDict(
                                dict_update(dict_update(pre.val.v, emitted), post.val.v)))
                       ELSE ~outcome.ok

\* C10's case: {"for(i in l)": {"k${{i}}": "v${{i}}"}} with l = [0, 1, 0] has been
\* evaluated shallowly to the two entries with(i=0) and with(i=1), each mapped to
\* the body as written
C10_Witness ==
    /\ Done /\ mode = "shallow" /\ template.t = "dict" /\ Len(template.v) = 1
    /\ ForHeader(template.v[1][1]).ok
    /\ ForHeader(template.v[1][1]).items = <<VInt(0), VInt(1), VInt(0)>>
    /\ template.v[1][2].t = "dict" /\ Len(template.v[1][2].v) > 0
    /\ outcome = Return(VDict(<< <<<<"w","i","t","h","(","i","=","0",")">>, template.v[1][2]>>,
                                 <<<<"w","i","t","h","(","i","=","1",")">>, template.v[1][2]>> >>))

====
